---------------------------- MODULE Spec2Model ----------------------------
(***************************************************************************)
(* Model of VaLib's maintenance scripts: scripts/new.py (the changelog     *)
(* merge), scripts/utils.py (showError) and scripts/check.py (the header   *)
(* checker).                                                               *)
(*                                                                         *)
(* A Python str is modelled as a sequence of tokens: every token is a      *)
(* piece of text that the scripts produce or test as a whole ("## [",      *)
(* "### ", "- ", a version, a date, a message word, "\n", " ").  String     *)
(* equality, `in`, startswith, strip, splitlines and join are computed on  *)
(* those sequences the way Python computes them on characters.  List       *)
(* indices are Python's (0-based): At(lines, i) is lines[i].               *)
(***************************************************************************)
EXTENDS Integers, Sequences, FiniteSets, TLC

VARIABLES
    changelog,  \* CHANGELOG.md: [exists, content]
    hist,       \* the updateChangelog calls that went through, in call order
    last,       \* the last invocation: its inputs, the file before it, its outcome
    calls,      \* number of invocations so far
    chk         \* the source file the header checker works on, and its passes

vars == <<changelog, hist, last, calls, chk>>

-----------------------------------------------------------------------------
(* Bounds of the model *)

MaxCalls == 3
MaxRuns == 2
MaxAnyLines == 3
MaxAnyCalls == 1
MaxSrcLines == 4
MaxPasses == 2

-----------------------------------------------------------------------------
(* Python str and list operations on token sequences *)

NL == "\n"
SP == " "

Min(a, b) == IF a < b THEN a ELSE b

At(lines, i) == lines[i + 1]

\* s.startswith(p)
StartsWith(s, p) == Len(s) >= Len(p) /\ SubSeq(s, 1, Len(p)) = p

\* p in s
Contains(s, p) ==
    \E i \in 0..(Len(s) - Len(p)) : SubSeq(s, i + 1, i + Len(p)) = p

Whitespace == {SP, NL}

RECURSIVE LStrip(_)
LStrip(s) == IF s # <<>> /\ Head(s) \in Whitespace THEN LStrip(Tail(s)) ELSE s

RECURSIVE RStrip(_)
RStrip(s) ==
    IF s # <<>> /\ s[Len(s)] \in Whitespace
    THEN RStrip(SubSeq(s, 1, Len(s) - 1))
    ELSE s

\* s.strip()
Strip(s) == RStrip(LStrip(s))

\* s.splitlines(): no empty last line after a final line break
RECURSIVE SplitLines(_)
SplitLines(s) ==
    IF s = <<>> THEN <<>>
    ELSE IF \E i \in 1..Len(s) : s[i] = NL
         THEN LET i == CHOOSE j \in 1..Len(s) :
                            s[j] = NL /\ \A k \in 1..(j - 1) : s[k] # NL
              IN  <<SubSeq(s, 1, i - 1)>> \o SplitLines(SubSeq(s, i + 1, Len(s)))
         ELSE <<s>>

\* "\n".join(lines)
RECURSIVE Join(_)
Join(lines) ==
    IF lines = <<>> THEN <<>>
    ELSE IF Len(lines) = 1 THEN lines[1]
    ELSE lines[1] \o <<NL>> \o Join(Tail(lines))

\* lines.insert(i, x): past the end, it appends
Insert(lines, i, x) ==
    LET j == Min(i, Len(lines))
    IN  SubSeq(lines, 1, j) \o <<x>> \o SubSeq(lines, j + 1, Len(lines))

\* lines.index(x), defined when x is in lines
Index(lines, x) ==
    CHOOSE i \in 0..(Len(lines) - 1) :
        At(lines, i) = x /\ \A k \in 0..(i - 1) : At(lines, k) # x

InList(lines, x) == \E i \in 1..Len(lines) : lines[i] = x

-----------------------------------------------------------------------------
(* scripts/utils.py *)

notExit == -123

\* a variant that reports the error and always returns
ShowErrorReturns(code) == FALSE

\* showError(code, msg): TRUE when it ends the process (sys.exit(code))
ShowError(code) == code # notExit

-----------------------------------------------------------------------------
(* scripts/new.py: constants *)

SuccessExit == 0
InvalidArgErrorExit == 1
ErrorExit == 2
\* exit status of the interpreter on an uncaught exception
UncaughtExit == 1

CHANGE_TYPES ==
    [add |-> "Added", fix |-> "Fixed", change |-> "Changed", remove |-> "Removed"]

MODULES == {<<"Types">>, <<"Utils">>, <<"FuncTools">>}

TitleLine == <<"# Changelog">>

\* f"## [{VERSION}] - {today}"
SectionHeader(key) == <<"## [", key[1], "] - ", key[2]>>

\* f"### {CHANGE_TYPES[changeType]}"
ChangeHeading(changeType) == <<"### ", CHANGE_TYPES[changeType]>>

\* total: the tagged message
Total(module, msg) ==
    (IF module \in MODULES
        THEN <<"**[ ">> \o module \o <<" ]**">>
        ELSE <<"**( ">> \o module \o <<" )**">>) \o <<SP>> \o msg

EntryLine(module, msg) == <<"- ">> \o Total(module, msg)

\* ensureChangelogExists(): the file after it (its content is what it returns)
EnsureChangelogExists(file) ==
    IF file.exists THEN file
    ELSE [exists |-> TRUE, content |-> TitleLine \o <<NL>>]

\* a variant that looks for the header in the latest section only
SectionMissingInLatest(content, sectionHeader) ==
    LET lines == SplitLines(content)
        secs  == {i \in 1..Len(lines) : StartsWith(lines[i], <<"## [">>)}
    IN  \/ secs = {}
        \/ lines[CHOOSE i \in secs : \A j \in secs : j <= i] # sectionHeader

\* sectionHeader not in content
SectionMissing(content, sectionHeader) == ~Contains(content, sectionHeader)

\* newSection: f"\n{sectionHeader}\n{changeHeading}\n- {total}\n"
NewSection(sectionHeader, changeHeading, total) ==
    <<NL>> \o sectionHeader \o <<NL>> \o changeHeading \o <<NL>>
        \o <<"- ">> \o total \o <<NL>>

\* the first loop: from insertionPoint to the next "## [" line, the heading
\* line, or the end of the list
RECURSIVE ScanSection(_, _, _)
ScanSection(lines, insertionPoint, changeHeading) ==
    IF ~(insertionPoint < Len(lines))
    THEN [insertionPoint |-> insertionPoint, foundHeading |-> FALSE]
    ELSE IF StartsWith(At(lines, insertionPoint), <<"## [">>)
    THEN [insertionPoint |-> insertionPoint, foundHeading |-> FALSE]
    ELSE IF Strip(At(lines, insertionPoint)) = changeHeading
    THEN [insertionPoint |-> insertionPoint, foundHeading |-> TRUE]
    ELSE ScanSection(lines, insertionPoint + 1, changeHeading)

\* the second loop: past the entries and blank lines that follow the heading
RECURSIVE EntryRunEnd(_, _)
EntryRunEnd(lines, headingIdx) ==
    IF headingIdx < Len(lines)
       /\ (\/ StartsWith(Strip(At(lines, headingIdx)), <<"- ">>)
           \/ Strip(At(lines, headingIdx)) = <<>>)
    THEN EntryRunEnd(lines, headingIdx + 1)
    ELSE headingIdx

\* foundHeading: the entry goes behind the heading's entries
InsertEntry(lines, insertionPoint, total) ==
    Insert(lines, EntryRunEnd(lines, insertionPoint + 1), <<"- ">> \o total)

\* a variant that puts the new heading where the scan stopped
InsertHeadingAtScan(lines, idx, insertionPoint, changeHeading, total) ==
    Insert(lines, insertionPoint, changeHeading \o <<NL, "- ">> \o total)

\* a variant that puts the new heading directly under the section header
InsertHeadingAtTop(lines, idx, insertionPoint, changeHeading, total) ==
    Insert(lines, idx + 1, changeHeading \o <<NL, "- ">> \o total)

\* not foundHeading: one list element holding the heading and the entry
InsertHeading(lines, idx, insertionPoint, changeHeading, total) ==
    Insert(lines, insertionPoint + 1, changeHeading \o <<NL, "- ">> \o total)

\* the else branch: the section header is in the content
MergeIntoSection(lines, sectionHeader, changeHeading, total) ==
    LET idx  == Index(lines, sectionHeader)
        scan == ScanSection(lines, idx + 1, changeHeading)
    IN  IF scan.foundHeading
        THEN [lines   |-> InsertEntry(lines, scan.insertionPoint, total),
              outcome |-> "newEntry"]
        ELSE [lines   |-> InsertHeading(lines, idx, scan.insertionPoint,
                                        changeHeading, total),
              outcome |-> "newHeading"]

\* updateChangelog(changeType, module, msg) with VERSION and today = key:
\* the file after it and which way it went
UpdateChangelogRun(file, key, changeType, module, msg) ==
    IF changeType \notin DOMAIN CHANGE_TYPES
    THEN [file |-> file, outcome |-> "KeyError"]
    ELSE
    LET sectionHeader == SectionHeader(key)
        changeHeading == ChangeHeading(changeType)
        opened        == EnsureChangelogExists(file)
        content       == opened.content
        lines         == SplitLines(content)
        total         == Total(module, msg)
    IN  IF SectionMissing(content, sectionHeader)
        THEN [file    |-> [exists  |-> TRUE,
                           content |-> content
                               \o NewSection(sectionHeader, changeHeading, total)],
              outcome |-> "newSection"]
        ELSE IF ~InList(lines, sectionHeader)
        THEN [file |-> opened, outcome |-> "ValueError"]
        ELSE LET m == MergeIntoSection(lines, sectionHeader, changeHeading, total)
             IN  [file    |-> [exists |-> TRUE, content |-> Join(m.lines)],
                  outcome |-> m.outcome]

Merged == {"newSection", "newHeading", "newEntry"}

\* the module string main() builds: ", ".join(files)
RECURSIVE JoinComma(_)
JoinComma(files) ==
    IF files = <<>> THEN <<>>
    ELSE IF Len(files) = 1 THEN <<files[1]>>
    ELSE <<files[1], ", ">> \o JoinComma(Tail(files))

\* openEditor(): the text the user left, stripped ("" when there is none)
OpenEditor(text) == Strip(text)

\* main() with sys.argv = argv: the file after it, how it ended, its exit status
MainRun(file, argv, text, key) ==
    IF Len(argv) < 3 \/ At(argv, 1) \notin DOMAIN CHANGE_TYPES
    THEN [file |-> file, outcome |-> "usage",
          exit |-> IF ShowError(InvalidArgErrorExit)
                   THEN InvalidArgErrorExit ELSE ErrorExit,
          module |-> <<>>]
    ELSE
    LET changeType == At(argv, 1)
        module == IF Len(argv) > 2
                  THEN <<At(argv, 2), ": ">> \o JoinComma(SubSeq(argv, 4, Len(argv)))
                  ELSE <<At(argv, 2)>>
        msg == OpenEditor(text)
    IN  IF msg = <<>> /\ ShowError(ErrorExit)
        THEN [file |-> file, outcome |-> "aborted", exit |-> ErrorExit,
              module |-> module]
        ELSE LET r == UpdateChangelogRun(file, key, changeType, module, msg)
             IN  [file |-> r.file, outcome |-> r.outcome,
                  exit |-> IF r.outcome \in Merged
                           THEN SuccessExit ELSE UncaughtExit,
                  module |-> module]

-----------------------------------------------------------------------------
(* Inputs *)

\* (VERSION, today): utils.py's VERSION, which version.py rewrites between
\* invocations, and the day datetime.now() gives
Keys == {<<"1.9.0", "2025-01-01">>, <<"1.9.1", "2025-01-01">>}

\* the changeType argument: three of CHANGE_TYPES' keys and one that is no key
ArgKinds == {"add", "fix", "change", "bogus"}

\* the module argument: a name of MODULES and one that is none
ArgModules == {<<"Types">>, <<"Scripts">>}

\* the msg argument: a one-line message (the same text may be merged twice)
Msgs == {<<"m1">>}

\* sys.argv of new.py
Argvs ==
    { <<"new.py">>,
      <<"new.py", "add">>,
      <<"new.py", "bogus", "Types">>,
      <<"new.py", "add", "Types">>,
      <<"new.py", "fix", "Scripts">>,
      <<"new.py", "fix", "Utils", "a.hpp", "b.hpp">> }

\* what the user leaves in the editor's file (<<>>: nothing, or no file)
EditorTexts == { <<>>, <<SP, NL>>, <<"m1", NL>>, <<"m2">> }

NoFile == [exists |-> FALSE, content |-> <<>>]

TitleOnly == [exists |-> TRUE, content |-> TitleLine \o <<NL>>]

NoCall ==
    [op |-> "none", argv |-> <<>>, key |-> <<>>, changeType |-> "",
     module |-> <<>>, msg |-> <<>>, before |-> NoFile, outcome |-> "",
     exit |-> notExit]

NoChk == [content |-> <<>>, isHeader |-> FALSE, passes |-> <<>>]

-----------------------------------------------------------------------------
(* The changelog scripts as a state machine *)

Init ==
    /\ changelog \in {NoFile, TitleOnly}
    /\ hist = <<>>
    /\ last = NoCall
    /\ calls = 0
    /\ chk = NoChk

\* one call of updateChangelog(changeType, module, msg)
UpdateChangelog ==
    \E key \in Keys, changeType \in ArgKinds, module \in ArgModules, msg \in Msgs :
        LET r == UpdateChangelogRun(changelog, key, changeType, module, msg)
        IN  /\ changelog' = r.file
            /\ hist' = IF r.outcome \in Merged
                       THEN Append(hist, [key |-> key, changeType |-> changeType,
                                          entry |-> EntryLine(module, msg),
                                          outcome |-> r.outcome])
                       ELSE hist
            /\ last' = [op |-> "updateChangelog", argv |-> <<>>, key |-> key,
                        changeType |-> changeType, module |-> module, msg |-> msg,
                        before |-> changelog, outcome |-> r.outcome,
                        exit |-> notExit]
            /\ calls' = calls + 1
            /\ UNCHANGED chk

\* one run of new.py
Main ==
    \E argv \in Argvs, text \in EditorTexts, key \in Keys :
        LET r == MainRun(changelog, argv, text, key)
        IN  /\ changelog' = r.file
            /\ hist' = IF r.outcome \in Merged
                       THEN Append(hist, [key |-> key, changeType |-> At(argv, 1),
                                          entry |-> EntryLine(r.module, OpenEditor(text)),
                                          outcome |-> r.outcome])
                       ELSE hist
            /\ last' = [op |-> "main", argv |-> argv, key |-> key,
                        changeType |-> IF Len(argv) > 1 THEN At(argv, 1) ELSE "",
                        module |-> r.module, msg |-> OpenEditor(text),
                        before |-> changelog, outcome |-> r.outcome,
                        exit |-> r.exit]
            /\ calls' = calls + 1
            /\ UNCHANGED chk

Next == calls < MaxCalls /\ UpdateChangelog

Spec == Init /\ [][Next]_vars

NextMain == calls < MaxRuns /\ (Main \/ UpdateChangelog)

SpecMain == Init /\ [][NextMain]_vars

\* any changelog: up to MaxAnyLines lines, written by hand or by the scripts
AnyLines ==
    { TitleLine,
      <<>>,
      SectionHeader(<<"1.9.0", "2025-01-01">>),
      <<"see ">> \o SectionHeader(<<"1.9.0", "2025-01-01">>),
      <<SP, SP>> \o ChangeHeading("fix"),
      EntryLine(<<"Types">>, <<"m1">>),
      <<"text">> }

AnyContents ==
    UNION { { Join(ls) \o end : ls \in [1..n -> AnyLines], end \in {<<>>, <<NL>>} } :
            n \in 0..MaxAnyLines }

InitAny ==
    /\ changelog \in {[exists |-> TRUE, content |-> c] : c \in AnyContents}
    /\ hist = <<>>
    /\ last = NoCall
    /\ calls = 0
    /\ chk = NoChk

NextAny == calls < MaxAnyCalls /\ UpdateChangelog

SpecAny == InitAny /\ [][NextAny]_vars

-----------------------------------------------------------------------------
(* scripts/check.py *)

\* commonHeader, stripped
commonHeader ==
    <<"// VaLib - Vast Library", NL,
      "// Licensed under GNU GPL v3 License. See LICENSE file.", NL,
      "// (C) 2025 VaLibTeam">>

PragmaOnce == <<"#pragma once">>

ReadFileLines(content) == SplitLines(content)

WriteFileLines(lines) == Join(lines) \o <<NL>>

CheckHeader(lines, expected) ==
    LET headerLines == SplitLines(expected)
    IN  IF Len(lines) < Len(headerLines) THEN FALSE
        ELSE SubSeq(lines, 1, Len(headerLines)) = headerLines

HasPragmaOnce(lines, expectedHeader) ==
    LET headerLines == SplitLines(expectedHeader)
    IN  IF Len(lines) <= Len(headerLines) THEN FALSE
        ELSE Strip(At(lines, Len(headerLines))) = PragmaOnce

\* fixFile's loop over the empty lines at start
RECURSIVE SkipEmpty(_, _)
SkipEmpty(lines, start) ==
    IF start < Len(lines) /\ Strip(At(lines, start)) = <<>>
    THEN SkipEmpty(lines, start + 1)
    ELSE start

\* fixFile(path, isHeader, expectedHeader): the content it writes
FixFile(content, isHeader, expectedHeader) ==
    LET lines       == ReadFileLines(content)
        headerLines == SplitLines(expectedHeader)
        start0      == IF CheckHeader(lines, expectedHeader)
                       THEN Len(headerLines)
                            + (IF isHeader /\ HasPragmaOnce(lines, expectedHeader)
                               THEN 1 ELSE 0)
                       ELSE 0
        start       == SkipEmpty(lines, start0)
        newLines    == headerLines
                       \o (IF isHeader /\ ~HasPragmaOnce(lines, expectedHeader)
                           THEN <<PragmaOnce>> ELSE <<>>)
                       \o << <<>> >>
                       \o SubSeq(lines, start + 1, Len(lines))
    IN  WriteFileLines(newLines)

\* processFile(path, fix, isHeader, expectedHeader): what it returns and the
\* content it leaves
ProcessFileRun(content, fix, isHeader, expectedHeader) ==
    LET lines == ReadFileLines(content)
    IN  IF ~CheckHeader(lines, expectedHeader)
        THEN [ret   |-> TRUE,
              after |-> IF fix THEN FixFile(content, isHeader, expectedHeader)
                        ELSE content]
        ELSE IF isHeader /\ ~HasPragmaOnce(lines, expectedHeader)
        THEN [ret   |-> TRUE,
              after |-> IF fix THEN FixFile(content, isHeader, expectedHeader)
                        ELSE content]
        ELSE [ret |-> FALSE, after |-> content]

\* the lines of a .hpp or .cpp file before the checker runs
SrcLines ==
    { <<"// VaLib - Vast Library">>,
      <<"// Licensed under GNU GPL v3 License. See LICENSE file.">>,
      <<"// (C) 2025 VaLibTeam">>,
      PragmaOnce,
      <<>>,
      <<"int x;">> }

SrcContents ==
    UNION { { WriteFileLines(ls) : ls \in [1..n -> SrcLines] } : n \in 1..MaxSrcLines }
        \cup {<<>>}

InitCheck ==
    /\ changelog = NoFile
    /\ hist = <<>>
    /\ last = NoCall
    /\ calls = 0
    /\ chk \in {[content |-> c, isHeader |-> h, passes |-> <<>>] :
                    c \in SrcContents, h \in BOOLEAN}

\* one pass of check.py over the file, with or without --fix
ProcessFile ==
    /\ Len(chk.passes) < MaxPasses
    /\ \E fix \in BOOLEAN :
          LET r == ProcessFileRun(chk.content, fix, chk.isHeader, commonHeader)
          IN  chk' = [chk EXCEPT !.content = r.after,
                                 !.passes = Append(@, [fix |-> fix, ret |-> r.ret,
                                                       after |-> r.after])]
    /\ UNCHANGED <<changelog, hist, last, calls>>

SpecCheck == InitCheck /\ [][ProcessFile]_vars

-----------------------------------------------------------------------------
(* Notions of the changelog's data model, used to state the properties *)

\* the changelog's lines now, and the lines the last call read
Lines == SplitLines(changelog.content)

BeforeLines == SplitLines(EnsureChangelogExists(last.before).content)

IsSectionLine(line) == StartsWith(line, <<"## [">>)

HeaderCount(lines, key) ==
    Cardinality({i \in 1..Len(lines) : lines[i] = SectionHeader(key)})

SectionLineCount(lines) ==
    Cardinality({i \in 1..Len(lines) : IsSectionLine(lines[i])})

\* the section that starts at index idx ends before index SectionEnd
SectionEnd(lines, idx) ==
    IF \E j \in (idx + 1)..(Len(lines) - 1) : IsSectionLine(At(lines, j))
    THEN CHOOSE j \in (idx + 1)..(Len(lines) - 1) :
            /\ IsSectionLine(At(lines, j))
            /\ \A k \in (idx + 1)..(j - 1) : ~IsSectionLine(At(lines, k))
    ELSE Len(lines)

\* lines with the lines of ins put in before index p
InsertedAt(lines, p, ins) ==
    SubSeq(lines, 1, p) \o ins \o SubSeq(lines, p + 1, Len(lines))

LastHeader == SectionHeader(last.key)
LastHeading == ChangeHeading(last.changeType)
LastEntry == EntryLine(last.module, last.msg)

\* the lines the last call had to add inside the section
LastInserted ==
    IF last.outcome = "newHeading" THEN <<LastHeading, LastEntry>> ELSE <<LastEntry>>

\* the entry lines merged so far for (key, changeType), in call order
MergedEntries(key, changeType) ==
    LET sel == SelectSeq(hist, LAMBDA h : h.key = key /\ h.changeType = changeType)
    IN  [i \in 1..Len(sel) |-> sel[i].entry]

\* the heading lines of kind changeType inside the section of key
HeadingsIn(lines, key, changeType) ==
    LET idx == Index(lines, SectionHeader(key))
    IN  {i \in (idx + 1)..(SectionEnd(lines, idx) - 1) :
            At(lines, i) = ChangeHeading(changeType)}

\* the entry lines of the heading block that starts at index h
BlockEntries(lines, h) ==
    LET stops == {j \in (h + 1)..(Len(lines) - 1) :
                     \/ IsSectionLine(At(lines, j))
                     \/ StartsWith(At(lines, j), <<"### ">>)}
        end   == IF stops = {} THEN Len(lines)
                 ELSE CHOOSE j \in stops : \A k \in stops : j <= k
    IN  SelectSeq(SubSeq(lines, h + 2, end), LAMBDA l : StartsWith(l, <<"- ">>))

-----------------------------------------------------------------------------
(* Properties *)

\* C1: after any sequence of merges from an absent or title-only changelog,
\* the file holds at most one header line "## [version] - date" per
\* (version, date), and a merge whose (version, date) already has a section
\* adds no section header line at all.
C1_OneSectionPerKey ==
    /\ \A key \in Keys : HeaderCount(Lines, key) <= 1
    /\ (last.outcome \in Merged /\ InList(BeforeLines, LastHeader))
           => SectionLineCount(Lines) = SectionLineCount(BeforeLines)

\* C1 witness: two merges of different kinds went into one (version, date)
\* and the file holds that section's header once.
C1_Witness ==
    \E i, j \in 1..Len(hist) :
        /\ i < j
        /\ hist[i].key = hist[j].key
        /\ hist[i].changeType # hist[j].changeType
        /\ HeaderCount(Lines, hist[i].key) = 1
        /\ last.outcome = "newHeading"

\* C2 (as claimed): a merge into an existing section puts its lines inside
\* that section's span: behind its header line and not behind the next
\* "## [" line.
C2_InsertedInsideSection ==
    last.outcome \in {"newHeading", "newEntry"} =>
        LET idx == Index(BeforeLines, LastHeader)
        IN  \E p \in (idx + 1)..SectionEnd(BeforeLines, idx) :
                Lines = InsertedAt(BeforeLines, p, LastInserted)

\* C3 (as claimed): the entries merged for one (version, date, kind) are
\* the entry lines of the heading block of that kind inside that section,
\* in call order, one line per merge.
C3_EntriesInCallOrder ==
    \A key \in Keys, changeType \in DOMAIN CHANGE_TYPES :
        MergedEntries(key, changeType) # <<>> =>
            /\ InList(Lines, SectionHeader(key))
            /\ \E h \in HeadingsIn(Lines, key, changeType) :
                  /\ \A g \in HeadingsIn(Lines, key, changeType) : h <= g
                  /\ BlockEntries(Lines, h) = MergedEntries(key, changeType)

\* C4 (as claimed): a new heading and its entry go directly behind the
\* section header line, in front of the section's other heading blocks.
C4_HeadingUnderHeader ==
    last.outcome = "newHeading" =>
        Lines = InsertedAt(BeforeLines, Index(BeforeLines, LastHeader) + 1,
                           <<LastHeading, LastEntry>>)

\* C4 (amended): a new heading and its entry go behind every line of the
\* section: at the end of the document when the section is the last one,
\* and one line past the section's end, behind the next section's header
\* line, when another section follows.  The lines that were in the section
\* stay in place in front of the new block.
C4_HeadingBehindSection ==
    last.outcome = "newHeading" =>
        LET idx == Index(BeforeLines, LastHeader)
            end == SectionEnd(BeforeLines, idx)
        IN  Lines = InsertedAt(BeforeLines, Min(end + 1, Len(BeforeLines)),
                               <<LastHeading, LastEntry>>)

\* C4 witness: a new heading went into a section that already held a
\* heading block.
C4_Witness ==
    /\ last.outcome = "newHeading"
    /\ LET idx == Index(BeforeLines, LastHeader)
       IN  \E i \in (idx + 1)..(SectionEnd(BeforeLines, idx) - 1) :
               StartsWith(At(BeforeLines, i), <<"### ">>)

\* fix then add, one after the other, the fix having made the section
FixThenAdd ==
    /\ Len(hist) >= 2
    /\ hist[Len(hist) - 1].changeType = "fix"
    /\ hist[Len(hist) - 1].outcome = "newSection"
    /\ hist[Len(hist)].changeType = "add"
    /\ hist[Len(hist)].key = hist[Len(hist) - 1].key

\* C5: after a fix and then an add into a fresh section, the section's
\* "### Fixed" line stands above its "### Added" line.
C5_FixedAboveAdded ==
    FixThenAdd =>
        LET key == hist[Len(hist)].key
        IN  /\ InList(Lines, SectionHeader(key))
            /\ \E i \in HeadingsIn(Lines, key, "fix") :
               \E j \in HeadingsIn(Lines, key, "add") : i < j

\* C5 witness: the add after the fix has made its own heading.
C5_Witness ==
    FixThenAdd /\ hist[Len(hist)].outcome = "newHeading" /\ last.outcome = "newHeading"

\* C7 (as claimed): a merge that makes a section adds four lines at the
\* end of the file: a blank line, the header, the heading, the entry.
C7_BlankLineBeforeNewSection ==
    last.outcome = "newSection" =>
        Lines = BeforeLines \o <<<<>>, LastHeader, LastHeading, LastEntry>>

\* C6 (as claimed): with a recognized change kind the merge never raises,
\* whatever the file holds; it goes one of its three ways, and it takes the
\* section to exist only when a full line equals the header text.
C6_MergeNeverRaises ==
    (last.op = "updateChangelog" /\ last.changeType \in DOMAIN CHANGE_TYPES) =>
        /\ last.outcome \in Merged
        /\ last.outcome # "newSection" <=> InList(BeforeLines, LastHeader)

\* the tag the entry of `tool <changeKind> <module>` is to carry
ClaimedTag(module) ==
    IF <<module>> \in MODULES
    THEN <<"**[ ", module, " ]**">>
    ELSE <<"**( ", module, " )**">>

\* C8 (as claimed): the entry that `tool <changeKind> <module>` writes
\* carries **[ module ]** for a module of MODULES and **( module )** for
\* any other.
C8_TagOfModule ==
    (last.op = "main" /\ last.outcome \in Merged /\ Len(last.argv) = 3) =>
        InList(Lines, <<"- ">> \o ClaimedTag(At(last.argv, 2)) \o <<SP>> \o last.msg)

\* the run was given too few arguments, an unknown change kind, or no message
BadRun ==
    /\ last.op = "main"
    /\ \/ Len(last.argv) < 3
       \/ At(last.argv, 1) \notin DOMAIN CHANGE_TYPES
       \/ last.msg = <<>>

\* C9: a run with too few arguments, an unknown change kind or an empty
\* message ends with a non-zero exit status and leaves the changelog as it
\* was (absent stays absent); updateChangelog with an unknown change kind
\* raises and leaves the file as it was.
C9_BadRunLeavesFile ==
    /\ BadRun => (last.exit # SuccessExit /\ changelog = last.before)
    /\ (last.op = "updateChangelog" /\ last.changeType \notin DOMAIN CHANGE_TYPES)
           => (last.outcome = "KeyError" /\ changelog = last.before)

\* C9 witness: a run with good arguments and an empty message ended with
\* ErrorExit and no changelog was made.
C9_Witness ==
    /\ BadRun
    /\ Len(last.argv) >= 3
    /\ At(last.argv, 1) \in DOMAIN CHANGE_TYPES
    /\ last.exit = ErrorExit
    /\ ~changelog.exists

\* the header, and for a .hpp file the pragma, are in place
HeaderInPlace(content, isHeader) ==
    /\ CheckHeader(SplitLines(content), commonHeader)
    /\ isHeader => HasPragmaOnce(SplitLines(content), commonHeader)

\* C10 (as claimed): after one pass with --fix the file starts with the
\* header and, for a .hpp file, "#pragma once" follows it; the next pass
\* returns False and leaves the file as it is.
C10_OnePassConverges ==
    \A i \in 1..Len(chk.passes) :
        chk.passes[i].fix =>
            /\ HeaderInPlace(chk.passes[i].after, chk.isHeader)
            /\ i < Len(chk.passes) =>
                  /\ ~chk.passes[i + 1].ret
                  /\ chk.passes[i + 1].after = chk.passes[i].after

=============================================================================
